---- MODULE Spec2Model ----
(***************************************************************************)
(* State-machine model of src/src/map.c: a string-keyed chained hash map   *)
(* (map_set_, map_get_, map_remove_, map_iter_, map_next_) with its heap   *)
(* of nodes, bucket array, growth (map_resize) and allocation failures.    *)
(***************************************************************************)
EXTENDS Integers, Sequences, FiniteSets, TLC

\* ------------------------------------------------------------------ bounds
MaxNodes == 3       \* heap slots available to malloc for nodes
MaxBuckets == 8     \* growth is not attempted beyond this bucket count
MaxYield == 6       \* keys recorded from one iterator
MaxIdx == 6         \* map_next_ is not called with a larger bucketidx
MaxKeyLen == 3      \* longest key map_newnode is run on by itself

\* --------------------------------------------------------------- constants
NULL == 0
\* size_t: the model takes the narrowest width C permits (SIZE_MAX >= 65535)
SIZE_BITS == 16
SIZE_MOD == 2 ^ SIZE_BITS
HASH_INIT == 5381
\* map_iter_t.bucketidx is a signed index; the model takes the narrowest
\* width C permits for an int
IDX_BITS == 16
IDX_MAX == 2 ^ (IDX_BITS - 1) - 1

\* a pointer is as wide as size_t and aligned to its size; map_node_t is
\* three such words (hash, value, next)
PTR_ALIGN == SIZE_BITS \div 8
NODE_SIZE == 3 * PTR_ALIGN

NodeIds == 1 .. MaxNodes

\* Keys are NUL-free byte strings.  <<34,3>> and <<35,33>> have the same
\* digest; <<1>> shares its low two bits; <<4>> differs in the lowest bit.
Keys == { <<1>>, <<4>>, <<34, 3>>, <<35, 33>> }
Values == { 1, 2 }

\* the keys map_newnode is run on by itself: every string of up to
\* MaxKeyLen of these bytes (low, ASCII, and with the top bit set)
KeyBytes == { 1, 97, 128, 255 }
RECURSIVE StringsUpTo(_)
StringsUpTo(n) ==
    IF n = 0 THEN { << >> }
    ELSE LET S == StringsUpTo(n - 1)
         IN  S \cup { Append(t, b) : t \in S, b \in KeyBytes }
NodeKeys == StringsUpTo(MaxKeyLen)

\* --------------------------------------------------------- bit operations
RECURSIVE BitXor(_, _)
BitXor(a, b) ==
    IF a = 0 THEN b
    ELSE IF b = 0 THEN a
    ELSE (((a % 2) + (b % 2)) % 2) + 2 * BitXor(a \div 2, b \div 2)

RECURSIVE BitAnd(_, _)
BitAnd(a, b) ==
    IF a = 0 \/ b = 0 THEN 0
    ELSE ((a % 2) * (b % 2)) + 2 * BitAnd(a \div 2, b \div 2)

\* unsigned wraparound of size_t arithmetic
Wrap(x) == x % SIZE_MOD

\* ------------------------------------------------------------------- hash
\* one iteration of the loop of map_hash
map_hash_step(hash, b) == BitXor(Wrap(Wrap(hash * 33) + hash), b)

RECURSIVE map_hash_loop(_, _)
map_hash_loop(str, hash) ==
    IF str = <<>> THEN hash
    ELSE map_hash_loop(Tail(str), map_hash_step(hash, Head(str)))

map_hash(str) == map_hash_loop(str, HASH_INIT)

\* the digests of the keys in use, computed once
HashOf == [k \in Keys |-> map_hash(k)]

\* hash & (nbuckets - 1)
map_bucketidx(nb, hash) == BitAnd(hash, Wrap(nb - 1))

\* ------------------------------------------------------------------ state
VARIABLES
    mem,        \* heap: node id -> [key, hash, next, value]
    allocd,     \* node ids currently allocated (malloc'ed, not yet freed)
    buckets,    \* m->buckets: index 0..nbuckets-1 -> node id or NULL
    nbuckets,   \* m->nbuckets
    nnodes,     \* m->nnodes
    iter,       \* the caller's map_iter_t: [bucketidx, node]
    itOn,       \* an iterator is in use
    itDone,     \* its last map_next_ returned NULL
    yielded,    \* keys returned by map_next_ since map_iter_
    status,     \* "ok", "hung" or "undefined" (see StatusAfter)
    abs,        \* history: key -> value set and not removed since, or NULL
    last,       \* the set, remove or get that has just returned, and its
                \* outcome; NoOp once the caller has gone on
    order,      \* history: the keys set and not removed since, in the order
                \* of the sets that inserted them (kept by SpecOrder)
    hkey,       \* map_newnode on its own: the key it is called with,
    hstr,       \* the bytes of the key map_hash has yet to read (str),
    hacc,       \* the accumulator of map_hash (hash),
    voff        \* the offset of node->value in the block; -1 before it is set

vars == << mem, allocd, buckets, nbuckets, nnodes, iter, itOn, itDone,
           yielded, status, abs, last, order, hkey, hstr, hacc, voff >>

nodeVars == << hkey, hstr, hacc, voff >>

tableVars == << mem, allocd, buckets, nbuckets, nnodes >>
iterVars == << iter, itOn, itDone, yielded >>

\* contents of a heap slot malloc has never handed out
FreshCell == [key |-> <<>>, hash |-> 0, next |-> NULL, value |-> 0]

NoOp == [op |-> "none", key |-> <<>>, value |-> 0, ret |-> -1,
         found |-> FALSE, grew |-> FALSE, fail |-> "none", pos |-> "none",
         node |-> NULL]

\* ------------------------------------------------------------- map_getref
\* The walk of the chain at the key's bucket.  ref is the place *next lives:
\* <<"bucket", i>> or <<"node", n>> (the next field of node n).  Reading a
\* node that is not allocated is recorded in uaf; a walk that comes back to
\* a node it has visited never ends.
RECURSIVE getref_walk(_, _, _, _, _, _)
getref_walk(ref, cur, key, hash, uaf, seen) ==
    IF cur = NULL
      THEN [res |-> "null", ref |-> ref, node |-> NULL, uaf |-> uaf]
    ELSE IF cur \in seen
      THEN [res |-> "hang", ref |-> ref, node |-> NULL, uaf |-> uaf]
    ELSE IF mem[cur].hash = hash /\ mem[cur].key = key
      THEN [res |-> "found", ref |-> ref, node |-> cur,
            uaf |-> uaf \/ cur \notin allocd]
    ELSE getref_walk(<<"node", cur>>, mem[cur].next, key, hash,
                     uaf \/ cur \notin allocd, seen \cup {cur})

map_getref(key) ==
    LET hash == HashOf[key]
    IN  IF nbuckets > 0
          THEN LET i == map_bucketidx(nbuckets, hash)
               IN  getref_walk(<<"bucket", i>>, buckets[i], key, hash,
                               FALSE, {})
          ELSE [res |-> "null", ref |-> <<"none", 0>>, node |-> NULL,
                uaf |-> FALSE]

\* map_get_: the node whose value storage is returned, NULL for "not found"
map_get_(key) ==
    LET next == map_getref(key)
    IN  [res |-> next.res,
         node |-> IF next.res = "found" THEN next.node ELSE NULL,
         uaf |-> next.uaf]

\* what a caller reads through the pointer map_get_ returns: the value,
\* NULL for "not found", -1 when the call has no defined result (it reads
\* freed memory or does not return)
GetValue(key) ==
    LET r == map_get_(key)
    IN  IF r.uaf \/ r.res = "hang" THEN -1
        ELSE IF r.res = "found" THEN mem[r.node].value
        ELSE NULL

\* ------------------------------------------------------------ map_newnode
\* (a map_newnode that leaves the value bytes unwritten)
map_newnode_novalue(key, value) ==
    [key |-> key, hash |-> HashOf[key], next |-> NULL, value |-> 0]

\* ksize = strlen(key) + 1
map_ksize(key) == Len(key) + 1

\* node->value = ((char *) (node + 1)) + ksize, as an offset from node
map_value_offset(key) == NODE_SIZE + map_ksize(key)

\* the node map_newnode builds in the block malloc returned
map_newnode(key, value) ==
    [key |-> key, hash |-> HashOf[key], next |-> NULL, value |-> value]

\* ------------------------------------------------------------------- free
\* The bytes of a freed block are indeterminate, and the program reads a
\* block only through the pointers that lead to it from the bucket array.
\* A block no chain leads to (freed, or allocated and lost) is given the
\* contents of an untouched one; a block still pointed to keeps its bytes.
RECURSIVE Closure(_, _)
Closure(mm, S) ==
    LET T == (S \cup {mm[n].next : n \in S}) \ {NULL}
    IN  IF T = S THEN S ELSE Closure(mm, T)

Scrub(mm, bk) ==
    LET keep == Closure(mm, {bk[i] : i \in DOMAIN bk} \ {NULL})
    IN  [n \in NodeIds |-> IF n \in keep THEN mm[n] ELSE FreshCell]

\* ------------------------------------------------------------ map_addnode
\* (a map_addnode that links the node behind the head of its chain)
map_addnode_behind(mm, bk, nb, node) ==
    LET n == map_bucketidx(nb, mm[node].hash)
    IN  IF bk[n] = NULL
          THEN [mm |-> [mm EXCEPT ![node].next = NULL],
                bk |-> [bk EXCEPT ![n] = node]]
          ELSE [mm |-> [mm EXCEPT ![node].next = mm[bk[n]].next,
                                  ![bk[n]].next = node],
                bk |-> bk]

\* prepend node to the chain of its bucket in bucket array bk of nb slots
map_addnode(mm, bk, nb, node) ==
    LET n == map_bucketidx(nb, mm[node].hash)
    IN  [mm |-> [mm EXCEPT ![node].next = bk[n]],
         bk |-> [bk EXCEPT ![n] = node]]

\* ------------------------------------------------------------- map_resize
EmptyBuckets(nb) == [i \in 0 .. nb - 1 |-> NULL]

\* inner loop of "chain all nodes together": walks one chain from node,
\* pushing each node on the list nodes.  A repeated loop state never ends.
RECURSIVE resize_chain(_, _, _, _, _, _)
resize_chain(mm, al, node, nodes, uaf, seen) ==
    IF node = NULL
      THEN [mm |-> mm, nodes |-> nodes, uaf |-> uaf, hang |-> FALSE]
    ELSE IF <<mm, node, nodes>> \in seen
      THEN [mm |-> mm, nodes |-> nodes, uaf |-> uaf, hang |-> TRUE]
    ELSE resize_chain([mm EXCEPT ![node].next = nodes], al, mm[node].next,
                      node, uaf \/ node \notin al,
                      seen \cup {<<mm, node, nodes>>})

\* (a collecting loop that stops before bucket 0)
RECURSIVE resize_collect_skip0(_, _, _, _, _)
resize_collect_skip0(mm, al, i, nodes, uaf) ==
    IF i <= 1
      THEN [mm |-> mm, nodes |-> nodes, uaf |-> uaf, hang |-> FALSE]
    ELSE LET r == resize_chain(mm, al, buckets[i - 1], nodes, uaf, {})
         IN  IF r.hang THEN r
             ELSE resize_collect_skip0(r.mm, al, i - 1, r.nodes, r.uaf)

\* outer loop: i = m->nbuckets; while (i--) ...
RECURSIVE resize_collect(_, _, _, _, _)
resize_collect(mm, al, i, nodes, uaf) ==
    IF i = 0
      THEN [mm |-> mm, nodes |-> nodes, uaf |-> uaf, hang |-> FALSE]
    ELSE LET r == resize_chain(mm, al, buckets[i - 1], nodes, uaf, {})
         IN  IF r.hang THEN r
             ELSE resize_collect(r.mm, al, i - 1, r.nodes, r.uaf)

\* (a re-adding loop that indexes with the old bucket count)
RECURSIVE resize_readd_oldcount(_, _, _, _, _, _, _)
resize_readd_oldcount(mm, al, bk, nb, node, uaf, seen) ==
    IF node = NULL
      THEN [mm |-> mm, bk |-> bk, uaf |-> uaf, hang |-> FALSE]
    ELSE IF <<mm, bk, node>> \in seen
      THEN [mm |-> mm, bk |-> bk, uaf |-> uaf, hang |-> TRUE]
    ELSE LET a == map_addnode(mm, bk, nbuckets, node)
         IN  resize_readd_oldcount(a.mm, al, a.bk, nb, mm[node].next,
                                   uaf \/ node \notin al,
                                   seen \cup {<<mm, bk, node>>})

\* "re-add nodes to buckets"
RECURSIVE resize_readd(_, _, _, _, _, _, _)
resize_readd(mm, al, bk, nb, node, uaf, seen) ==
    IF node = NULL
      THEN [mm |-> mm, bk |-> bk, uaf |-> uaf, hang |-> FALSE]
    ELSE IF <<mm, bk, node>> \in seen
      THEN [mm |-> mm, bk |-> bk, uaf |-> uaf, hang |-> TRUE]
    ELSE LET a == map_addnode(mm, bk, nb, node)
         IN  resize_readd(a.mm, al, a.bk, nb, mm[node].next,
                          uaf \/ node \notin al,
                          seen \cup {<<mm, bk, node>>})

\* map_resize(m, nb) on heap mm with allocated blocks al; reallocOk is whether realloc succeeds.
\* ret is the return value; on failure the bucket array is the old one and
\* the heap is as the collecting loop left it.
map_resize(mm, al, nb, reallocOk) ==
    LET c == resize_collect(mm, al, nbuckets, NULL, FALSE)
    IN  IF c.hang
          THEN [mm |-> c.mm, bk |-> buckets, nb |-> nbuckets, ret |-> 0,
                uaf |-> c.uaf, hang |-> TRUE]
        ELSE IF ~reallocOk
          THEN [mm |-> c.mm, bk |-> buckets, nb |-> nbuckets, ret |-> 0,
                uaf |-> c.uaf, hang |-> FALSE]
        ELSE LET r == resize_readd(c.mm, al, EmptyBuckets(nb), nb, c.nodes,
                                   c.uaf, {})
             IN  [mm |-> r.mm, bk |-> r.bk, nb |-> nb, ret |-> 1,
                  uaf |-> r.uaf, hang |-> r.hang]

\* --------------------------------------------------------------- map_set_
\* The whole of map_set_(m, key, value): slot is the block malloc returns
\* when mallocOk, reallocOk is whether the realloc of map_resize succeeds.
\* fail names the allocation that failed: "none", "node" or "grow".
SetResult(mm, al, bk, nb, nn, ret, hang, uaf, found, grew, fail, node) ==
    [mem |-> mm, allocd |-> al, buckets |-> bk, nbuckets |-> nb,
     nnodes |-> nn, ret |-> ret, hang |-> hang, uaf |-> uaf,
     found |-> found, grew |-> grew, fail |-> fail, node |-> node]

\* (a first growth that makes two buckets)
GrowTarget_from2 == IF nbuckets > 0 THEN Wrap(nbuckets * 2) ELSE 2

\* (a growth step that triples instead of doubling)
GrowTarget_triple == IF nbuckets > 0 THEN Wrap(nbuckets * 3) ELSE 1

\* the new bucket count map_set_ asks map_resize for
GrowTarget == IF nbuckets > 0 THEN Wrap(nbuckets * 2) ELSE 1

\* (a growth test that lets the table fill one entry past its buckets)
NeedsGrowth_late == nbuckets = 0 \/ nnodes > nbuckets

\* m->nnodes >= m->nbuckets
NeedsGrowth == nnodes >= nbuckets

\* (an overwrite that leaves the old value bytes)
set_replace_skip(mm, node, value) == mm

\* memcpy((*next)->value, value, vsize) on the node map_getref found
set_replace(mm, node, value) == [mm EXCEPT ![node].value = value]

map_set_(key, value, slot, mallocOk, reallocOk) ==
    LET next == map_getref(key)
    IN  IF next.res = "hang"
          THEN SetResult(mem, allocd, buckets, nbuckets, nnodes, -1, TRUE,
                         next.uaf, FALSE, FALSE, "none", NULL)
        ELSE IF next.res = "found"
          \* find & replace existing node
          THEN SetResult(set_replace(mem, next.node, value), allocd,
                         buckets, nbuckets, nnodes, 1, FALSE, next.uaf,
                         TRUE, FALSE, "none", next.node)
        ELSE IF ~mallocOk
          \* map_newnode returned NULL
          THEN SetResult(mem, allocd, buckets, nbuckets, nnodes, 0, FALSE,
                         next.uaf, FALSE, FALSE, "node", NULL)
        ELSE
          LET mm1 == [mem EXCEPT ![slot] = map_newnode(key, value)]
              al1 == allocd \cup {slot}
              rz  == IF NeedsGrowth
                       THEN map_resize(mm1, al1, GrowTarget, reallocOk)
                       ELSE [mm |-> mm1, bk |-> buckets, nb |-> nbuckets,
                             ret |-> 1, uaf |-> FALSE, hang |-> FALSE]
          IN  IF rz.hang
                THEN SetResult(rz.mm, al1, rz.bk, rz.nb, nnodes, -1, TRUE,
                               next.uaf \/ rz.uaf, FALSE, FALSE, "none",
                               NULL)
              ELSE IF rz.ret = 0
                \* fail: free(node)
                THEN SetResult(Scrub(rz.mm, rz.bk), allocd, rz.bk,
                               rz.nb, nnodes, 0, FALSE, next.uaf \/ rz.uaf, FALSE, FALSE,
                               "grow", NULL)
              ELSE
                LET a == map_addnode(rz.mm, rz.bk, rz.nb, slot)
                IN  SetResult(a.mm, al1, a.bk, rz.nb, Wrap(nnodes + 1), 1,
                              FALSE, next.uaf \/ rz.uaf, FALSE, NeedsGrowth,
                              "none", slot)

\* the block malloc returns: the lowest free one; NULL when the heap bound
\* is hit, where malloc is only allowed to fail
Malloc ==
    IF NodeIds \ allocd = {} THEN NULL
    ELSE CHOOSE n \in NodeIds \ allocd : \A o \in NodeIds \ allocd : n <= o

\* How a call ends.  A call that dereferences a freed node, or frees a
\* block twice, has undefined behaviour: nothing is said about its result
\* or about the program afterwards ("undefined" has no successor).  A call
\* whose loop never ends leaves the program "hung".
StatusAfter(hang, uaf) ==
    IF uaf THEN "undefined" ELSE IF hang THEN "hung" ELSE "ok"

\* Once the program is hung or undefined the model describes no table any
\* more: the variables other than status and last take their initial values.
Cleared ==
    /\ mem' = [n \in NodeIds |-> FreshCell]
    /\ buckets' = EmptyBuckets(0)
    /\ nbuckets' = 0
    /\ nnodes' = 0
    /\ iter' = [bucketidx |-> -1, node |-> NULL]
    /\ itOn' = FALSE
    /\ itDone' = FALSE
    /\ yielded' = << >>
    /\ abs' = [k \in Keys |-> NULL]

Halted == Cleared /\ allocd' = {}

Set(key, value, mallocOk, reallocOk) ==
    /\ UNCHANGED nodeVars
    /\ status = "ok"
    /\ ~itOn
    /\ last = NoOp
    \* an allocation the call does not make is not given an outcome
    /\   /\ (map_getref(key).res = "null" /\ mallocOk => Malloc # NULL)
         /\ (map_getref(key).res # "null" => mallocOk)
         /\ (~mallocOk \/ ~NeedsGrowth => reallocOk)
         /\ \E r \in {map_set_(key, value, Malloc, mallocOk, reallocOk)} :
             /\ (r.grew \/ r.fail = "grow" => GrowTarget <= MaxBuckets)
             /\ TRUE
                  /\ status' = StatusAfter(r.hang, r.uaf)
                  /\ IF status' = "ok"
                       THEN /\ mem' = r.mem
                            /\ allocd' = r.allocd
                            /\ buckets' = r.buckets
                            /\ nbuckets' = r.nbuckets
                            /\ nnodes' = r.nnodes
                            /\ abs' = IF r.ret = 1
                                        THEN [abs EXCEPT ![key] = value]
                                        ELSE abs
                            /\ last' = [NoOp EXCEPT !.op = "set",
                                          !.key = key, !.value = value,
                                          !.ret = r.ret, !.found = r.found,
                                          !.grew = r.grew, !.fail = r.fail,
                                          !.node = r.node]
                            /\ UNCHANGED iterVars
                       ELSE /\ Halted
                            /\ last' = [NoOp EXCEPT !.op = "set",
                                          !.key = key]

\* ------------------------------------------------------------ map_remove_
\* where the found node sits in the chain it was found in
ChainPos(next) ==
    IF next.res # "found" THEN "none"
    ELSE IF next.ref[1] = "bucket" THEN "head"
    ELSE IF mem[next.node].next = NULL THEN "tail"
    ELSE "middle"

\* *next = (*next)->next, for the place next that map_getref returned
Unlink(next) ==
    IF next.ref[1] = "bucket"
      THEN [mm |-> mem,
            bk |-> [buckets EXCEPT ![next.ref[2]] = mem[next.node].next]]
      ELSE [mm |-> [mem EXCEPT ![next.ref[2]].next = mem[next.node].next],
            bk |-> buckets]

\* (a remove that, when the node has a successor, copies the successor
\* into the node and frees the successor instead)
map_remove_copy(key) ==
    LET next == map_getref(key)
        succ == mem[next.node].next
    IN  IF next.res = "found" /\ succ # NULL /\ succ # next.node
          THEN LET mm == [mem EXCEPT ![next.node] = mem[succ]]
               IN  [mem |-> Scrub(mm, buckets), allocd |-> allocd \ {succ},
                    buckets |-> buckets, nnodes |-> Wrap(nnodes - 1),
                    hang |-> FALSE,
                    uaf |-> next.uaf \/ next.node \notin allocd
                              \/ succ \notin allocd,
                    found |-> TRUE, node |-> succ]
        ELSE IF next.res = "found"
          THEN LET u == Unlink(next)
               IN  [mem |-> Scrub(u.mm, u.bk),
                    allocd |-> allocd \ {next.node},
                    buckets |-> u.bk, nnodes |-> Wrap(nnodes - 1),
                    hang |-> FALSE,
                    uaf |-> next.uaf \/ next.node \notin allocd,
                    found |-> TRUE, node |-> next.node]
        ELSE [mem |-> mem, allocd |-> allocd, buckets |-> buckets,
              nnodes |-> nnodes, hang |-> next.res = "hang",
              uaf |-> next.uaf, found |-> FALSE, node |-> NULL]

map_remove_(key) ==
    LET next == map_getref(key)
    IN  IF next.res = "hang"
          THEN [mem |-> mem, allocd |-> allocd, buckets |-> buckets,
                nnodes |-> nnodes, hang |-> TRUE, uaf |-> next.uaf,
                found |-> FALSE, node |-> NULL]
        ELSE IF next.res = "found"
          THEN LET u == Unlink(next)
               IN  [mem |-> Scrub(u.mm, u.bk),
                    allocd |-> allocd \ {next.node},
                    buckets |-> u.bk, nnodes |-> Wrap(nnodes - 1),
                    hang |-> FALSE,
                    \* free of a block that is not allocated, or a write
                    \* to the next field of a freed node
                    uaf |-> \/ next.uaf
                            \/ next.node \notin allocd
                            \/ (next.ref[1] = "node"
                                  /\ next.ref[2] \notin allocd),
                    found |-> TRUE, node |-> next.node]
        ELSE [mem |-> mem, allocd |-> allocd, buckets |-> buckets,
              nnodes |-> nnodes, hang |-> FALSE, uaf |-> next.uaf,
              found |-> FALSE, node |-> NULL]

Remove(key) ==
    /\ UNCHANGED nodeVars
    /\ status = "ok"
    /\ ~itOn
    /\ last = NoOp
    /\ \E r \in {map_remove_(key)}, pos \in {ChainPos(map_getref(key))} :
           /\ TRUE
                /\ status' = StatusAfter(r.hang, r.uaf)
                /\ IF status' = "ok"
                     THEN /\ mem' = r.mem
                          /\ allocd' = r.allocd
                          /\ buckets' = r.buckets
                          /\ nnodes' = r.nnodes
                          /\ abs' = [abs EXCEPT ![key] = NULL]
                          /\ last' = [NoOp EXCEPT !.op = "remove",
                                        !.key = key, !.ret = 1,
                                        !.found = r.found, !.pos = pos,
                                        !.node = r.node]
                          /\ UNCHANGED << nbuckets, iterVars >>
                     ELSE /\ Halted
                          /\ last' = [NoOp EXCEPT !.op = "remove",
                                        !.key = key]

\* ------------------------------------------------------------ map_delete_
\* the inner loop on one chain: next = node->next; free(node).  al is the
\* set of blocks still allocated.  Coming to a block that is not allocated
\* (freed before, or by this call) reads and frees a freed block.
RECURSIVE delete_chain(_, _, _)
delete_chain(al, node, uaf) ==
    IF node = NULL THEN [allocd |-> al, uaf |-> uaf]
    ELSE IF node \notin al THEN [allocd |-> al, uaf |-> TRUE]
    ELSE delete_chain(al \ {node}, mem[node].next, uaf)

\* the outer loop: i = m->nbuckets; while (i--) ...
RECURSIVE delete_buckets(_, _, _)
delete_buckets(al, i, uaf) ==
    IF i = 0 THEN [allocd |-> al, uaf |-> uaf]
    ELSE LET r == delete_chain(al, buckets[i - 1], uaf)
         IN  IF r.uaf THEN r ELSE delete_buckets(r.allocd, i - 1, FALSE)

\* map_delete_(m): the blocks left allocated once every chain has been
\* walked and freed (the bucket array is freed last)
map_delete_ == delete_buckets(allocd, nbuckets, FALSE)

\* The table is not used after map_delete_: status "destroyed" has no
\* successor, and only the blocks left allocated are kept of the state.
Destroy ==
    /\ UNCHANGED << order, nodeVars >>
    /\ status = "ok"
    /\ ~itOn
    /\ last = NoOp
    /\ \E r \in {map_delete_} :
           /\ status' = IF r.uaf THEN "undefined" ELSE "destroyed"
           /\ Cleared
           /\ allocd' = IF r.uaf THEN {} ELSE r.allocd
           /\ last' = [NoOp EXCEPT !.op = "destroy"]

\* --------------------------------------------------------------- map_get_
Get(key) ==
    /\ UNCHANGED << order, nodeVars >>
    /\ status = "ok"
    /\ ~itOn
    /\ last = NoOp
    /\ \E r \in {map_get_(key)} :
           /\ TRUE
                /\ status' = StatusAfter(r.res = "hang", r.uaf)
                /\ IF status' = "ok"
                     THEN /\ last' = [NoOp EXCEPT !.op = "get",
                                        !.key = key, !.ret = 1,
                                        !.found = (r.res = "found"),
                                        !.value = GetValue(key),
                                        !.node = r.node]
                          /\ UNCHANGED << tableVars, iterVars, abs >>
                     ELSE /\ Halted
                          /\ last' = [NoOp EXCEPT !.op = "get",
                                        !.key = key]

\* ------------------------------------------------------ map_iter_, map_next_
NewIter == [bucketidx |-> -1, node |-> NULL]

\* map_iter_(): the caller starts a scan; the table is not mutated while
\* the iterator is in use (Set and Remove wait for IterEnd).  What a scan
\* returns is kept in itDone and yielded, not in last.
IterNew ==
    /\ status = "ok"
    /\ ~itOn
    /\ last = NoOp
    /\ iter' = NewIter
    /\ itOn' = TRUE
    /\ itDone' = FALSE
    /\ yielded' = << >>
    /\ UNCHANGED << tableVars, status, abs, last, order, nodeVars >>

\* the do-while of map_next_ from bucket index idx: the first non-empty
\* bucket after idx, or the index at which the scan gave up
RECURSIVE next_bucket(_)
next_bucket(idx) ==
    IF idx >= IDX_MAX
      \* ++iter->bucketidx overflows the signed index
      THEN [bucketidx |-> idx, node |-> NULL, end |-> TRUE, ovf |-> TRUE]
    ELSE IF idx + 1 >= nbuckets
      THEN [bucketidx |-> idx + 1, node |-> NULL, end |-> TRUE,
            ovf |-> FALSE]
    ELSE IF buckets[idx + 1] # NULL
      THEN [bucketidx |-> idx + 1, node |-> buckets[idx + 1], end |-> FALSE,
            ovf |-> FALSE]
    ELSE next_bucket(idx + 1)

\* (a map_next_ that leaves a chain after its first node)
map_next_headonly(it) ==
    LET nb == next_bucket(it.bucketidx)
    IN  [bucketidx |-> nb.bucketidx, node |-> nb.node, end |-> nb.end,
         uaf |-> nb.ovf]

\* map_next_(m, iter): the iterator afterwards, and end when NULL is returned
map_next_(it) ==
    IF it.node # NULL /\ mem[it.node].next # NULL
      THEN [bucketidx |-> it.bucketidx, node |-> mem[it.node].next,
            end |-> FALSE, uaf |-> it.node \notin allocd]
      ELSE LET nb == next_bucket(it.bucketidx)
           IN  [bucketidx |-> nb.bucketidx,
                \* return NULL leaves iter->node as it was, which is NULL
                node |-> nb.node, end |-> nb.end,
                uaf |-> \/ it.node # NULL /\ it.node \notin allocd
                        \/ nb.ovf]

\* one call of map_next_ on the iterator in use
Advance ==
    /\ UNCHANGED << order, nodeVars >>
    /\ status = "ok"
    /\ itOn
    /\ Len(yielded) < MaxYield
    /\ \E r \in {map_next_(iter)} :
           /\ TRUE
                /\ status' = StatusAfter(FALSE, r.uaf)
                /\ IF status' = "ok"
                     THEN /\ iter' = [bucketidx |-> r.bucketidx,
                                      node |-> r.node]
                          /\ itDone' = r.end
                          /\ yielded' = IF r.end THEN yielded
                                        ELSE Append(yielded, mem[r.node].key)
                          /\ UNCHANGED << tableVars, itOn, abs, last >>
                     ELSE /\ Halted
                          /\ last' = [NoOp EXCEPT !.op = "next"]

IterNext ==
    /\ iter.bucketidx < MaxIdx
    /\ Advance

\* the caller is done with the iterator
IterEnd ==
    /\ status = "ok"
    /\ itOn
    /\ iter' = NewIter
    /\ itOn' = FALSE
    /\ itDone' = FALSE
    /\ yielded' = << >>
    /\ UNCHANGED << tableVars, status, abs, last, order, nodeVars >>

InitTable ==
    /\ mem = [n \in NodeIds |-> FreshCell]
    /\ allocd = {}
    /\ buckets = EmptyBuckets(0)
    /\ nbuckets = 0
    /\ nnodes = 0
    /\ iter = [bucketidx |-> -1, node |-> NULL]
    /\ itOn = FALSE
    /\ itDone = FALSE
    /\ yielded = << >>
    /\ status = "ok"
    /\ abs = [k \in Keys |-> NULL]
    /\ last = NoOp
    /\ order = << >>

Init ==
    /\ InitTable
    /\ hkey = << >>
    /\ hstr = << >>
    /\ hacc = HASH_INIT
    /\ voff = -1

\* The caller has read what the last set, remove or get returned and goes
\* on; the next call is made after that.
Return ==
    /\ status = "ok"
    /\ last # NoOp
    /\ last' = NoOp
    /\ UNCHANGED << tableVars, iterVars, status, abs, order, nodeVars >>

\* a set whose allocations may fail
SetOp ==
    \E key \in Keys, value \in Values, mallocOk \in BOOLEAN,
       reallocOk \in BOOLEAN :
        Set(key, value, mallocOk, reallocOk) /\ UNCHANGED order
\* a set whose allocations succeed
SetOkOp ==
    \E key \in Keys, value \in Values :
        Set(key, value, TRUE, TRUE) /\ UNCHANGED order
RemoveOp == \E key \in Keys : Remove(key) /\ UNCHANGED order
GetOp == \E key \in Keys : Get(key)

Next ==
    \/ SetOp
    \/ RemoveOp
    \/ GetOp
    \/ IterNew
    \/ IterNext
    \/ IterEnd
    \/ Return
    \/ Destroy

Spec == Init /\ [][Next]_vars

\* the program when no allocation fails
NextNoFail ==
    \/ SetOkOp
    \/ RemoveOp
    \/ GetOp
    \/ IterNew
    \/ IterNext
    \/ IterEnd
    \/ Return
    \/ Destroy

SpecNoFail == Init /\ [][NextNoFail]_vars

\* The program when no allocation fails, with the order of the insertions
\* recorded: a set of a key that is not in order appends it, a remove
\* takes the key out.
SetOrd(key, value) ==
    /\ Set(key, value, TRUE, TRUE)
    /\ order' = IF \E i \in DOMAIN order : order[i] = key THEN order
                ELSE Append(order, key)

RemoveOrd(key) ==
    /\ Remove(key)
    /\ order' = SelectSeq(order, LAMBDA k : k # key)

SetOrdOp == \E key \in Keys, value \in Values : SetOrd(key, value)
RemoveOrdOp == \E key \in Keys : RemoveOrd(key)

NextOrder ==
    \/ SetOrdOp
    \/ RemoveOrdOp
    \/ IterNew
    \/ IterNext
    \/ IterEnd
    \/ Return

SpecOrder == Init /\ [][NextOrder]_vars

\* map_newnode on its own, for any key: map_hash reads the key byte by
\* byte, then node->value is set.  The table is not touched.
InitNode ==
    /\ InitTable
    /\ hkey \in NodeKeys
    /\ hstr = hkey
    /\ hacc = HASH_INIT
    /\ voff = -1

\* one turn of the loop of map_hash: while (*str) ... *str++
HashByte ==
    /\ hstr # << >>
    /\ hacc' = map_hash_step(hacc, Head(hstr))
    /\ hstr' = Tail(hstr)
    /\ UNCHANGED << tableVars, iterVars, status, abs, last, order, hkey,
                    voff >>

\* node->value = ((char *) (node + 1)) + ksize
PlaceValue ==
    /\ hstr = << >>
    /\ voff = -1
    /\ voff' = map_value_offset(hkey)
    /\ UNCHANGED << tableVars, iterVars, status, abs, last, order, hkey,
                    hstr, hacc >>

NextNode ==
    \/ HashByte
    \/ PlaceValue

SpecNode == InitNode /\ [][NextNode]_vars

\* A caller that keeps calling map_next_ on one iterator, over the empty
\* table or a table of one entry, however often.
ScanSet ==
    /\ nnodes = 0
    /\ \E key \in Keys : Set(key, 1, TRUE, TRUE) /\ UNCHANGED order
ScanNext == Advance

NextScan ==
    \/ ScanSet
    \/ Return
    \/ IterNew
    \/ ScanNext

SpecScan == Init /\ [][NextScan]_vars

TypeOK ==
    /\ allocd \subseteq NodeIds
    /\ nbuckets \in 0 .. MaxBuckets
    /\ DOMAIN buckets = 0 .. nbuckets - 1
    /\ \A i \in DOMAIN buckets : buckets[i] \in NodeIds \cup {NULL}
    /\ status \in {"ok", "hung", "undefined", "destroyed"}

\* ================================================================= claims
\* key k is in the table: get(k) returns a value
Live(k) == GetValue(k) \in Values

LiveKeys == {k \in Keys : Live(k)}

\* the nodes of the chain of bucket i, in link order (cut where it loops)
RECURSIVE chain_from(_, _)
chain_from(node, seen) ==
    IF node = NULL \/ node \in seen THEN << >>
    ELSE << node >> \o chain_from(mem[node].next, seen \cup {node})

Chains == [i \in DOMAIN buckets |-> chain_from(buckets[i], {})]

Range(seq) == {seq[i] : i \in DOMAIN seq}

\* C1 (round trip): when no allocation fails, a set(k, v) that reports
\* success is followed by get(k) returning v, whether k was new, present,
\* or the set grew the bucket array.
RoundTrip ==
    (last.op = "set" /\ last.ret = 1) => GetValue(last.key) = last.value

\* a successful set of a new key that grew the array to 4 buckets
RoundTripWitness ==
    /\ last.op = "set" /\ last.ret = 1 /\ last.grew /\ nbuckets = 4
    /\ GetValue(last.key) = last.value

\* C2 (growth failure is atomic): a set whose growth allocation fails
\* leaves every chain with the same nodes in the same links and every get
\* with the same result.
GrowthFailureAtomic ==
    [][ (last'.op = "set" /\ last'.fail = "grow")
          => /\ buckets' = buckets
             /\ Chains' = Chains
             /\ \A k \in Keys : GetValue(k)' = GetValue(k) ]_vars

\* C3 (iteration completeness): when no allocation fails, a scan run to
\* its end yields every live key exactly once, entry_count keys in all.
IterationComplete ==
    (itOn /\ itDone)
      => /\ Range(yielded) = LiveKeys
         /\ Range(yielded) = {k \in Keys : abs[k] # NULL}
         /\ Len(yielded) = Cardinality(Range(yielded))
         /\ Len(yielded) = nnodes

\* a finished scan that yielded the three entries of the table
IterationCompleteWitness ==
    /\ itOn /\ itDone /\ Len(yielded) = 3 /\ nnodes = 3
    /\ Range(yielded) = LiveKeys

\* C4 (resize preserves membership): a set that grows the bucket array
\* leaves every other key as it was: a live key stays live with the same
\* value, and no key but the inserted one becomes live.
ResizePreservesMembership ==
    [][ (last'.op = "set" /\ last'.grew)
          => \A k \in Keys \ {last'.key} :
               /\ Live(k) => GetValue(k)' = GetValue(k)
               /\ Live(k)' => Live(k) ]_vars

\* a growth from 2 to 4 buckets with two other keys in the table
ResizePreservesMembershipWitness ==
    /\ last.op = "set" /\ last.grew /\ nbuckets = 4
    /\ Cardinality(LiveKeys) = 3

\* C5 (overwrite): a set of a live key reports success, get then returns
\* the new value, and entry_count and bucket_count are unchanged.
Overwrite ==
    [][ \A k \in Keys :
          (last'.op = "set" /\ last'.key = k /\ Live(k))
            => /\ last'.ret = 1
               /\ GetValue(k)' = last'.value
               /\ nnodes' = nnodes
               /\ nbuckets' = nbuckets ]_vars

\* an overwrite made while entry_count >= bucket_count
OverwriteWitness ==
    /\ last.op = "set" /\ last.found /\ last.ret = 1
    /\ nnodes >= nbuckets
    /\ GetValue(last.key) = last.value

\* C6 (removal): remove of a live key makes get return "not found" and
\* decrements entry_count by one, wherever the entry sits in its chain.
Removal ==
    [][ \A k \in Keys :
          (last'.op = "remove" /\ last'.key = k /\ Live(k))
            => /\ GetValue(k)' = NULL
               /\ nnodes' = nnodes - 1 ]_vars

\* C7 (idempotent remove): remove of a key that is not live does not fail
\* and leaves entry_count, bucket_count and every chain unchanged.
IdempotentRemove ==
    [][ \A k \in Keys :
          (last'.op = "remove" /\ last'.key = k /\ ~Live(k))
          => /\ status' = "ok"
             /\ nnodes' = nnodes
             /\ nbuckets' = nbuckets
             /\ buckets' = buckets
             /\ Chains' = Chains ]_vars

\* C8 (failed insert leaves the new key out): a set of a new key whose
\* entry or growth allocation fails reports failure; afterwards get of the
\* key returns "not found" and entry_count and bucket_count are unchanged.
FailedInsertLeavesKeyOut ==
    [][ \A k \in Keys :
          (last'.op = "set" /\ last'.key = k /\ last'.fail # "none")
            => /\ last'.ret = 0
               /\ GetValue(k)' = NULL
               /\ nnodes' = nnodes
               /\ nbuckets' = nbuckets ]_vars

\* C9 (load bound): when no allocation fails, after every successful set
\* entry_count <= bucket_count, and the keys set and not removed number at
\* most bucket_count.
LoadBound ==
    (last.op = "set" /\ last.ret = 1)
      => /\ nnodes <= nbuckets
         /\ Cardinality({k \in Keys : abs[k] # NULL}) <= nbuckets

\* a successful set that filled the table to entry_count = bucket_count
LoadBoundWitness ==
    /\ last.op = "set" /\ last.ret = 1 /\ ~last.found
    /\ nnodes = 2 /\ nbuckets = 2

IsPowerOfTwo(n) == \E e \in 0 .. SIZE_BITS : n = 2 ^ e

\* C10 (bucket_count is 0 or a power of two) in every reachable state,
\* also after sets that failed.
BucketCountPowerOfTwo == nbuckets = 0 \/ IsPowerOfTwo(nbuckets)

\* four buckets, reached by a growth that followed a failed one: a node of
\* the failed growth is still allocated and in no chain
BucketCountPowerOfTwoWitness ==
    /\ nbuckets = 4
    /\ \E n \in allocd : \A i \in DOMAIN buckets : n \notin Range(Chains[i])

\* C11 (Exhausted is terminal): once map_next_ has returned NULL on an
\* iterator, every later map_next_ on it, the table unchanged, returns NULL
\* again and yields no key; so too on the empty table of zero buckets.
ExhaustedIsTerminal ==
    [][ (itOn /\ itDone)
          => /\ status' = "ok"
             /\ itOn' => (itDone' /\ yielded' = yielded) ]_vars

\* the sum of the lengths of the chains of buckets 0 .. i - 1
RECURSIVE ChainSum(_)
ChainSum(i) == IF i = 0 THEN 0 ELSE Len(Chains[i - 1]) + ChainSum(i - 1)

\* C12 (entry_count is the sum of the chain lengths) after every completed
\* set and remove, whether or not allocations succeed; an entry counts once
\* for each chain it can be reached from.
EntryCountIsChainSum == status = "ok" => nnodes = ChainSum(nbuckets)

\* C13 (other keys are not disturbed): a set(k, v) that reports success
\* and a remove(k) leave get(k2) as it was for every key k2 other than k:
\* "not found" stays "not found", a value stays the same value; also for
\* a k2 with the digest of k or in the bucket of k.
OtherKeysUndisturbed ==
    [][ \A k \in Keys :
          ( /\ status' = "ok"
            /\ last'.key = k
            /\ \/ last'.op = "set" /\ last'.ret = 1
               \/ last'.op = "remove" )
            => \A k2 \in Keys \ {k} : GetValue(k2)' = GetValue(k2) ]_vars

\* the keys of seq whose digest falls in bucket i of nbuckets, last first
RECURSIVE NewestFirst(_, _)
NewestFirst(seq, i) ==
    IF seq = << >> THEN << >>
    ELSE LET k == seq[Len(seq)]
             rest == NewestFirst(SubSeq(seq, 1, Len(seq) - 1), i)
         IN  IF BitAnd(HashOf[k], nbuckets - 1) = i THEN << k >> \o rest
             ELSE rest

\* the buckets i .. nbuckets - 1 in ascending order, each newest first
RECURSIVE ByBucket(_)
ByBucket(i) ==
    IF i >= nbuckets THEN << >>
    ELSE NewestFirst(order, i) \o ByBucket(i + 1)

\* C14 (traversal order): when no allocation fails, a scan run to its end
\* yields the keys by ascending bucket index, the keys of one bucket from
\* the one inserted last to the one inserted first; an overwrite moves
\* nothing, and the order holds after growth has moved the entries.
TraversalOrder == (itOn /\ itDone) => yielded = ByBucket(0)

\* a finished scan of three entries in four buckets, two of them in one
\* bucket, after a key was overwritten
TraversalOrderWitness ==
    /\ itOn /\ itDone /\ nbuckets = 4 /\ Len(yielded) = 3
    /\ \E i \in 0 .. 3 : Len(NewestFirst(order, i)) >= 2
    /\ \E k \in Keys : abs[k] = 2
    /\ yielded = ByBucket(0)

\* C15 (when bucket_count changes): over every set, remove and get that
\* returns, failed sets included: a successful set of a key get does not
\* find, made while entry_count >= bucket_count, takes bucket_count from 0
\* to 1 and otherwise doubles it; in no other step does bucket_count
\* change, so it never decreases.
BucketCountChange ==
    [][ status' = "ok"
          => LET inserts == /\ last'.op = "set" /\ last'.ret = 1
                            /\ \E k \in Keys : last'.key = k /\ ~Live(k)
                 full == nnodes >= nbuckets
             IN  /\ (inserts /\ full)
                      => nbuckets' = IF nbuckets = 0 THEN 1 ELSE 2 * nbuckets
                 /\ ~(inserts /\ full) => nbuckets' = nbuckets
                 /\ nbuckets' >= nbuckets ]_vars

\* the third insert into the empty table has taken bucket_count from 2 to 4
BucketCountChangeWitness ==
    /\ last.op = "set" /\ last.ret = 1 /\ ~last.found
    /\ nbuckets = 4 /\ nnodes = 3 /\ Cardinality(allocd) = 3

\* C16 (entry lifecycle), allocation failures included: no call reads or
\* frees a freed entry; an entry is allocated only by a successful set of
\* a key that get does not find; a set that fails leaves no entry
\* allocated that was not; remove of a live key frees its entry and no
\* other; map_delete_ leaves no entry allocated.
EntryLifecycle ==
    [][ /\ status' # "undefined"
        /\ \A n \in allocd' \ allocd :
              /\ last'.op = "set" /\ last'.ret = 1 /\ last'.node = n
              /\ \E k \in Keys : last'.key = k /\ ~Live(k)
        /\ (last'.op = "set" /\ last'.ret = 0) => allocd' = allocd
        /\ \A k \in Keys :
              (last'.op = "remove" /\ last'.key = k /\ Live(k)
                 /\ status' = "ok")
                => /\ map_get_(k).node \in allocd
                   /\ allocd' = allocd \ {map_get_(k).node}
        /\ last'.op = "destroy" => allocd' = {} ]_vars

\* how often node n occurs in the chain of bucket i
Occurs(n, i) == Cardinality({j \in DOMAIN Chains[i] : Chains[i][j] = n})

\* C17 (placement and uniqueness): when no allocation fails, every entry
\* holds the digest of its key, is linked exactly once in the chain of
\* bucket (digest AND (bucket_count - 1)) and in no other chain, every
\* chain ends, and no two entries hold the same key.
PlacementAndUniqueness ==
    status = "ok"
      => /\ \A n \in allocd :
               /\ mem[n].hash = map_hash(mem[n].key)
               /\ nbuckets > 0
               /\ \A i \in DOMAIN buckets :
                     Occurs(n, i) =
                       IF i = BitAnd(mem[n].hash, nbuckets - 1) THEN 1 ELSE 0
         /\ \A i \in DOMAIN buckets :
               /\ Range(Chains[i]) \subseteq allocd
               /\ Chains[i] # << >>
                     => mem[Chains[i][Len(Chains[i])]].next = NULL
         /\ \A n1, n2 \in allocd : mem[n1].key = mem[n2].key => n1 = n2

\* four buckets holding two entries of one digest and a third entry
PlacementAndUniquenessWitness ==
    /\ status = "ok" /\ nbuckets = 4 /\ Cardinality(allocd) = 3
    /\ \E n1, n2 \in allocd :
          /\ n1 # n2 /\ mem[n1].hash = mem[n2].hash
          /\ \E j \in DOMAIN Chains[3] : Chains[3][j] = n1
          /\ \E j \in DOMAIN Chains[3] : Chains[3][j] = n2

\* C18 (value references are stable): for as long as get finds key k, the
\* value storage get(k) returns is that of the same node: a step that
\* changes the table and leaves k live - an overwrite of k, a set or
\* remove of another key, a growth of the bucket array - leaves the value
\* of k in the same block.  (a is get(k) before the step, b after it.)
ValueReferenceStable ==
    [][ tableVars' # tableVars
          => \A k \in Keys :
               \A a \in {map_get_(k)} :
                 (a.res = "found" /\ ~a.uaf)
                   => \A b \in {map_get_(k)'} :
                        (b.res = "found" /\ ~b.uaf) => b.node = a.node
      ]_vars

\* the entry of a key with a live neighbour in its chain was overwritten in
\* a table that growth has taken to four buckets
ValueReferenceStableWitness ==
    /\ last.op = "set" /\ last.found /\ last.value = 2 /\ nbuckets = 4
    /\ Live(last.key)
    /\ map_get_(last.key).node = last.node
    /\ mem[last.node].next # NULL

\* C19 (value alignment): for every key length the value storage of a new
\* entry starts at an offset from the start of the block that is a
\* multiple of the pointer alignment.
ValueAligned == voff # -1 => voff % PTR_ALIGN = 0

\* x << n in size_t
ShiftLeft(x, n) == Wrap(x * 2 ^ n)

\* C20 (hash step): the accumulator starts at 5381, each byte b of the key
\* in order takes it to (acc * 33 + acc) XOR b in size_t, which is the same
\* as ((acc << 5) + acc) XOR b, and the digest is that of the bytes
\* before the terminator.
HashStepIsShiftAdd ==
    [][ hstr' # hstr
          => /\ hacc' = BitXor(Wrap(Wrap(hacc * 33) + hacc), Head(hstr))
             /\ hacc' = BitXor(Wrap(ShiftLeft(hacc, 5) + hacc), Head(hstr))
             /\ hstr' = << >> => hacc' = map_hash(hkey) ]_vars

====
